---- MODULE Spec2Model ----
(***************************************************************************)
(* Model of ai.py: a single-shot command-line assistant.  One process run  *)
(* is modelled from module import (dotenv merge, API-key check, agent      *)
(* construction) through main() to process exit.  The remote model and the *)
(* agent framework are the environment: during run_sync they may invoke    *)
(* the two registered tools any number of times (bounded by MaxToolCalls)  *)
(* in any order, and run_sync either returns an Answer or raises.          *)
(***************************************************************************)
EXTENDS Naturals, Sequences, FiniteSets, TLC

VARIABLES
    osEnv,        \* VOLCES_DEEPSEEK_API_KEY in the inherited process environment
    dotEnv,       \* VOLCES_DEEPSEEK_API_KEY in the local .env file
    environ,      \* os.environ["VOLCES_DEEPSEEK_API_KEY"] as the process sees it
    argv,         \* sys.argv[1:]
    pc,           \* position of the single thread of control
    api_key,      \* module global api_key
    agentBuilt,   \* the module global agent (and its model client) exists
    user_prompt,  \* main's local user_prompt
    agentCalls,   \* requests passed to agent.run_sync, in order
    toolCalls,    \* tool invocations made during the exchange, in order
    resp_data,    \* main's local answer (resp.data)
    y_or_n,       \* main's local y_or_n
    inputReads,   \* number of input() calls made
    stdout,       \* lines written to standard output, in order
    stderr,       \* lines written to standard error, in order
    shellCalls,   \* arguments passed to os.system, in order
    uncaught,     \* exception that escaped to the interpreter, if any
    exit_status   \* process exit status once the process has ended

vars == <<osEnv, dotEnv, environ, argv, pc, api_key, agentBuilt, user_prompt,
          agentCalls, toolCalls, resp_data, y_or_n, inputReads, stdout,
          stderr, shellCalls, uncaught, exit_status>>

(***************************************************************************)
(* Bounds and input domains                                                *)
(***************************************************************************)
MaxArgs == 2
MaxToolCalls == 2

\* Python's None and a present value of an optional field
None == <<>>
Some(x) == <<x>>

ArgWords == {"", "ls", "-a"}
KeyValues == {"", "sk-key"}
ThinkStrings == {"t1", "t2"}
CmdStrings == {"ls"}
FailureStrings == {"ambiguous request"}
InputLines == {"y", "Y", "n", "yes", " y", ""}
RemoteErrors == {"transport error", "malformed model output"}

OptKey == {None} \cup {Some(k) : k \in KeyValues}
OptCmd == {None} \cup {Some(c) : c \in CmdStrings}
OptFailure == {None} \cup {Some(f) : f \in FailureStrings}

ArgLists == UNION {[1..n -> ArgWords] : n \in 0..MaxArgs}

(***************************************************************************)
(* The Answer dataclass                                                    *)
(***************************************************************************)
Answer(success, cmd, failure) ==
    [success |-> success, cmd |-> cmd, failure |-> failure]

Answers == {Answer(s, c, f) : s \in BOOLEAN, c \in OptCmd, f \in OptFailure}

(***************************************************************************)
(* Pure helpers                                                            *)
(***************************************************************************)
\* str.join
RECURSIVE StrJoin(_, _)
StrJoin(sep, xs) ==
    IF Len(xs) = 0 THEN ""
    ELSE IF Len(xs) = 1 THEN xs[1]
    ELSE xs[1] \o sep \o StrJoin(sep, Tail(xs))

\* " ".join: the arguments joined with a separator
JoinArgsSpace(xs) == StrJoin(" ", xs)

\* "".join(sys.argv[1:])
JoinArgs(xs) == StrJoin("", xs)

\* format of an optional string inside an f-string
Str(o) == IF o = None THEN "None" ELSE o[1]

\* `api_key is None`: an empty key passes
NotKeyNoneOnly(k) == k = None

\* `not api_key`
NotKey(k) == k = None \/ k = Some("")

\* load_dotenv(): a variable already in the environment is not overridden
MergeDotenv(env, dot) == IF env # None THEN env ELSE dot

\* `answer.success` alone, as in the commented-out REPL variant (line 113)
TakesCommandBranchSuccessOnly(a) == a.success

\* `answer.success and answer.cmd is not None`
TakesCommandBranch(a) == a.success /\ a.cmd # None

\* a looser test that also takes "yes" and padded replies
IsConfirmLoose(l) == l \in {"y", "Y", "yes", " y"}

\* `y_or_n in ["y", "Y"]`
IsConfirm(l) == l \in {"y", "Y"}

ThinkLine(s) == "(AI Thinking): " \o s \o "\n"
CommandLine(a) == "(AI Answer): " \o Str(a.cmd)
ExecutePrompt == "Execute? Y/N: "

\* the else branch without the failure reason
FailureLinesNoticeOnly(a) == <<"Generate failed">>

\* the two lines of the else branch
FailureLines(a) == <<"(AI Answer): " \o Str(a.failure), "Generate failed">>

KeyErrorMessage == "ValueError: VOLCES_DEEPSEEK_API_KEY not found in environment variables"

(***************************************************************************)
(* Initial state: the process has started, nothing has been imported yet   *)
(***************************************************************************)
Init ==
    /\ osEnv \in OptKey
    /\ dotEnv \in OptKey
    /\ environ = osEnv
    /\ argv \in ArgLists
    /\ pc = "load_dotenv"
    /\ api_key = None
    /\ agentBuilt = FALSE
    /\ user_prompt = ""
    /\ agentCalls = <<>>
    /\ toolCalls = <<>>
    /\ resp_data = None
    /\ y_or_n = None
    /\ inputReads = 0
    /\ stdout = <<>>
    /\ stderr = <<>>
    /\ shellCalls = <<>>
    /\ uncaught = None
    /\ exit_status = None

(***************************************************************************)
(* Module-level code                                                       *)
(***************************************************************************)
load_dotenv ==
    /\ pc = "load_dotenv"
    /\ environ' = MergeDotenv(osEnv, dotEnv)
    /\ pc' = "getenv"
    /\ UNCHANGED <<osEnv, dotEnv, argv, api_key, agentBuilt, user_prompt,
                   agentCalls, toolCalls, resp_data, y_or_n, inputReads,
                   stdout, stderr, shellCalls, uncaught, exit_status>>

getenv_check ==
    /\ pc = "getenv"
    /\ api_key' = environ
    /\ IF NotKey(environ)
       THEN /\ uncaught' = Some("ValueError")
            /\ stderr' = Append(stderr, KeyErrorMessage)
            /\ exit_status' = Some(1)
            /\ pc' = "exit"
       ELSE /\ pc' = "Agent"
            /\ UNCHANGED <<uncaught, stderr, exit_status>>
    /\ UNCHANGED <<osEnv, dotEnv, environ, argv, agentBuilt, user_prompt,
                   agentCalls, toolCalls, resp_data, y_or_n, inputReads,
                   stdout, shellCalls>>

build_agent ==
    /\ pc = "Agent"
    /\ agentBuilt' = TRUE
    /\ pc' = "main"
    /\ UNCHANGED <<osEnv, dotEnv, environ, argv, api_key, user_prompt,
                   agentCalls, toolCalls, resp_data, y_or_n, inputReads,
                   stdout, stderr, shellCalls, uncaught, exit_status>>

(***************************************************************************)
(* main()                                                                  *)
(***************************************************************************)
\* main_join without the sys.exit(1): the message is printed and main goes on
main_join_fallthrough ==
    /\ pc = "main"
    /\ user_prompt' = JoinArgs(argv)
    /\ stdout' = IF Len(JoinArgs(argv)) = 0 THEN Append(stdout, "No prompts") ELSE stdout
    /\ pc' = "run_sync"
    /\ UNCHANGED <<osEnv, dotEnv, environ, argv, api_key, agentBuilt,
                   agentCalls, toolCalls, resp_data, y_or_n, inputReads,
                   stderr, shellCalls, uncaught, exit_status>>

\* lines 75-78: join the arguments; an empty prompt prints and exits 1

main_join ==
    /\ pc = "main"
    /\ user_prompt' = JoinArgs(argv)
    /\ IF Len(JoinArgs(argv)) = 0
       THEN /\ stdout' = Append(stdout, "No prompts")
            /\ exit_status' = Some(1)
            /\ pc' = "exit"
       ELSE /\ pc' = "run_sync"
            /\ UNCHANGED <<stdout, exit_status>>
    /\ UNCHANGED <<osEnv, dotEnv, environ, argv, api_key, agentBuilt,
                   agentCalls, toolCalls, resp_data, y_or_n, inputReads,
                   stderr, shellCalls, uncaught>>

run_sync_call ==
    /\ pc = "run_sync"
    /\ agentCalls' = Append(agentCalls, user_prompt)
    /\ pc' = "exchange"
    /\ UNCHANGED <<osEnv, dotEnv, environ, argv, api_key, agentBuilt,
                   user_prompt, toolCalls, resp_data, y_or_n, inputReads,
                   stdout, stderr, shellCalls, uncaught, exit_status>>

think(s) ==
    /\ pc = "exchange"
    /\ Len(toolCalls) < MaxToolCalls
    /\ stdout' = Append(stdout, ThinkLine(s))
    /\ toolCalls' = Append(toolCalls, [tool |-> "think", s |-> s])
    /\ UNCHANGED <<osEnv, dotEnv, environ, argv, pc, api_key, agentBuilt,
                   user_prompt, agentCalls, resp_data, y_or_n, inputReads,
                   stderr, shellCalls, uncaught, exit_status>>

answer(success, cmd, failure) ==
    /\ pc = "exchange"
    /\ Len(toolCalls) < MaxToolCalls
    /\ toolCalls' = Append(toolCalls,
                           [tool |-> "answer", ret |-> Answer(success, cmd, failure)])
    /\ UNCHANGED <<osEnv, dotEnv, environ, argv, pc, api_key, agentBuilt,
                   user_prompt, agentCalls, resp_data, y_or_n, inputReads,
                   stdout, stderr, shellCalls, uncaught, exit_status>>

run_sync_return(a) ==
    /\ pc = "exchange"
    /\ resp_data' = Some(a)
    /\ pc' = "branch"
    /\ UNCHANGED <<osEnv, dotEnv, environ, argv, api_key, agentBuilt,
                   user_prompt, agentCalls, toolCalls, y_or_n, inputReads,
                   stdout, stderr, shellCalls, uncaught, exit_status>>

run_sync_raise(e) ==
    /\ pc = "exchange"
    /\ uncaught' = Some(e)
    /\ stderr' = Append(stderr, "Traceback (most recent call last): " \o e)
    /\ exit_status' = Some(1)
    /\ pc' = "exit"
    /\ UNCHANGED <<osEnv, dotEnv, environ, argv, api_key, agentBuilt,
                   user_prompt, agentCalls, toolCalls, resp_data, y_or_n,
                   inputReads, stdout, shellCalls>>

main_branch ==
    /\ pc = "branch"
    /\ IF TakesCommandBranch(resp_data[1])
       THEN /\ stdout' = Append(stdout, CommandLine(resp_data[1]))
            /\ pc' = "input"
            /\ UNCHANGED exit_status
       ELSE /\ stdout' = stdout \o FailureLines(resp_data[1])
            /\ exit_status' = Some(0)
            /\ pc' = "exit"
    /\ UNCHANGED <<osEnv, dotEnv, environ, argv, api_key, agentBuilt,
                   user_prompt, agentCalls, toolCalls, resp_data, y_or_n,
                   inputReads, stderr, shellCalls, uncaught>>

input_line(l) ==
    /\ pc = "input"
    /\ stdout' = Append(stdout, ExecutePrompt)
    /\ inputReads' = inputReads + 1
    /\ y_or_n' = Some(l)
    /\ pc' = "execute"
    /\ UNCHANGED <<osEnv, dotEnv, environ, argv, api_key, agentBuilt,
                   user_prompt, agentCalls, toolCalls, resp_data, stderr,
                   shellCalls, uncaught, exit_status>>

input_eof ==
    /\ pc = "input"
    /\ stdout' = Append(stdout, ExecutePrompt)
    /\ inputReads' = inputReads + 1
    /\ uncaught' = Some("EOFError")
    /\ stderr' = Append(stderr, "Traceback (most recent call last): EOFError")
    /\ exit_status' = Some(1)
    /\ pc' = "exit"
    /\ UNCHANGED <<osEnv, dotEnv, environ, argv, api_key, agentBuilt,
                   user_prompt, agentCalls, toolCalls, resp_data, y_or_n,
                   shellCalls>>

main_execute ==
    /\ pc = "execute"
    /\ IF IsConfirm(y_or_n[1])
       THEN shellCalls' = Append(shellCalls, resp_data[1].cmd)
       ELSE UNCHANGED shellCalls
    /\ exit_status' = Some(0)
    /\ pc' = "exit"
    /\ UNCHANGED <<osEnv, dotEnv, environ, argv, api_key, agentBuilt,
                   user_prompt, agentCalls, toolCalls, resp_data, y_or_n,
                   inputReads, stdout, stderr, uncaught>>

Next ==
    \/ load_dotenv
    \/ getenv_check
    \/ build_agent
    \/ main_join
    \/ run_sync_call
    \/ \E s \in ThinkStrings : think(s)
    \/ \E success \in BOOLEAN, cmd \in OptCmd, failure \in OptFailure :
           answer(success, cmd, failure)
    \/ \E a \in Answers : run_sync_return(a)
    \/ \E e \in RemoteErrors : run_sync_raise(e)
    \/ main_branch
    \/ \E l \in InputLines : input_line(l)
    \/ input_eof
    \/ main_execute

Spec == Init /\ [][Next]_vars

(***************************************************************************)
(* Vocabulary of the properties                                            *)
(***************************************************************************)
Terminated == pc = "exit"

\* zero arguments, or only empty-string arguments
AllArgsEmpty == \A i \in 1..Len(argv) : argv[i] = ""

\* the arguments concatenated in order, nothing in between
RECURSIVE ConcatInOrder(_)
ConcatInOrder(xs) ==
    IF xs = <<>> THEN ""
    ELSE ConcatInOrder(SubSeq(xs, 1, Len(xs) - 1)) \o xs[Len(xs)]

Returned == resp_data # None
TheAnswer == resp_data[1]

\* the lines the think invocations made so far must have displayed, in order
ThinkCalls == SelectSeq(toolCalls, LAMBDA c : c.tool = "think")
ThinkDisplay == [i \in 1..Len(ThinkCalls) |-> "(AI Thinking): " \o ThinkCalls[i].s \o "\n"]

AnswerCalls == SelectSeq(toolCalls, LAMBDA c : c.tool = "answer")

PromptShown == \E i \in 1..Len(stdout) : stdout[i] = "Execute? Y/N: "

\* the text shown for the failure field: the reason, or the fixed text "None"
FailureText(a) == IF a.failure = None THEN "None" ELSE a.failure[1]

FailureReport(a) == <<"(AI Answer): " \o FailureText(a), "Generate failed">>

WellFormed(a) ==
    /\ a.success => (a.cmd # None /\ a.failure = None)
    /\ ~a.success => (a.failure # None /\ a.cmd = None)

(***************************************************************************)
(* C1 -- Confirmation gate: the shell is invoked if and only if run_sync   *)
(* returned an Answer with success true and a non-null cmd and the one     *)
(* line read after the "Execute? Y/N: " prompt is exactly "y" or "Y"; it   *)
(* then receives exactly the Answer's cmd.  After any other line the shell *)
(* is not invoked and the process ends normally with status 0.             *)
(***************************************************************************)
ConfirmationGate ==
    /\ shellCalls # <<>> =>
          /\ Returned /\ TheAnswer.success /\ TheAnswer.cmd # None
          /\ y_or_n \in {Some("y"), Some("Y")}
          /\ inputReads = 1
          /\ PromptShown
          /\ shellCalls = <<TheAnswer.cmd>>
    /\ (Terminated /\ y_or_n \in {Some("y"), Some("Y")}) =>
          /\ shellCalls = <<TheAnswer.cmd>>
          /\ exit_status = Some(0)
    /\ (Terminated /\ y_or_n # None /\ y_or_n \notin {Some("y"), Some("Y")}) =>
          /\ shellCalls = <<>>
          /\ exit_status = Some(0)
          /\ uncaught = None

ConfirmationGateWitness ==
    /\ Terminated
    /\ y_or_n = Some("Y")
    /\ shellCalls = <<Some("ls")>>
    /\ exit_status = Some(0)

(***************************************************************************)
(* C2 -- Empty request: when the arguments concatenate to the empty string *)
(* main() prints "No prompts" and ends with a non-zero status; the agent   *)
(* is never invoked, no input is read and no shell command is run.         *)
(***************************************************************************)
EmptyRequest ==
    (AllArgsEmpty /\ agentBuilt /\ pc # "main") =>
        /\ Terminated
        /\ stdout = <<"No prompts">>
        /\ exit_status = Some(1)
        /\ agentCalls = <<>>
        /\ toolCalls = <<>>
        /\ inputReads = 0
        /\ shellCalls = <<>>

EmptyRequestWitness ==
    /\ Terminated
    /\ argv = <<"", "">>
    /\ stdout = <<"No prompts">>
    /\ exit_status = Some(1)

(***************************************************************************)
(* C3 -- For every non-empty request a finished run of the driver shows    *)
(* exactly one of: the command followed by the execute prompt, or the      *)
(* failure report; never both and never neither.                           *)
(***************************************************************************)
OutcomeCommand ==
    /\ Returned /\ TheAnswer.cmd # None
    /\ \E i \in 1..(Len(stdout) - 1) :
           /\ stdout[i] = "(AI Answer): " \o TheAnswer.cmd[1]
           /\ stdout[i + 1] = "Execute? Y/N: "
OutcomeFailure == Len(stdout) >= 2 /\ stdout[Len(stdout)] = "Generate failed"

ExactlyOneOutcome ==
    (Terminated /\ agentBuilt /\ ~AllArgsEmpty) =>
        /\ OutcomeCommand \/ OutcomeFailure
        /\ ~(OutcomeCommand /\ OutcomeFailure)

(***************************************************************************)
(* C4 -- Answer invariant: every Answer the answer tool constructs and     *)
(* every Answer the driver consumes has success => cmd present and failure *)
(* null, and not success => failure present and cmd null.                  *)
(***************************************************************************)
AnswerInvariant ==
    /\ \A i \in 1..Len(AnswerCalls) : WellFormed(AnswerCalls[i].ret)
    /\ Returned => WellFormed(TheAnswer)

(***************************************************************************)
(* C5 -- Fail-fast configuration: if VOLCES_DEEPSEEK_API_KEY is absent or  *)
(* empty after the dotenv merge, the program fails with an error naming    *)
(* the variable before the agent is constructed; no agent invocation,      *)
(* prompt or shell execution follows.                                      *)
(***************************************************************************)
FailFastConfig ==
    (pc \notin {"load_dotenv", "getenv"} /\ (environ = None \/ environ = Some(""))) =>
        /\ Terminated
        /\ uncaught = Some("ValueError")
        /\ stderr = <<"ValueError: VOLCES_DEEPSEEK_API_KEY not found in environment variables">>
        /\ exit_status = Some(1)
        /\ ~agentBuilt
        /\ agentCalls = <<>>
        /\ toolCalls = <<>>
        /\ stdout = <<>>
        /\ inputReads = 0
        /\ shellCalls = <<>>

FailFastConfigWitness ==
    /\ Terminated
    /\ osEnv = Some("")
    /\ dotEnv = Some("sk-key")
    /\ uncaught = Some("ValueError")
    /\ ~agentBuilt

(***************************************************************************)
(* C6 -- Remote/transport failure: when the agent invocation fails, the    *)
(* driver catches the failure, prints a user-facing error message and ends *)
(* with a non-zero status; the failure never escapes as an unhandled       *)
(* exception, is never turned into an Answer, and no prompt or shell       *)
(* invocation follows.                                                     *)
(***************************************************************************)
AgentFailed == Terminated /\ agentCalls # <<>> /\ ~Returned

RemoteFailureHandled ==
    AgentFailed =>
        /\ uncaught = None
        /\ Len(stdout) > Len(ThinkDisplay)
        /\ exit_status = Some(1)
        /\ ~PromptShown
        /\ shellCalls = <<>>

ToolCallProtocol ==
    Returned =>
        /\ Len(AnswerCalls) = 1
        /\ toolCalls[Len(toolCalls)].tool = "answer"
        /\ TheAnswer = toolCalls[Len(toolCalls)].ret
        /\ SubSeq(stdout, 1, Len(ThinkDisplay)) = ThinkDisplay

(***************************************************************************)
(* C9 -- Single request per run: for a non-empty request main() invokes    *)
(* the agent exactly once, with exactly the arguments concatenated in      *)
(* order and no separator; never a second time, whatever the Answer or the *)
(* user's reply; the shell is invoked at most once.                        *)
(***************************************************************************)
SingleRequest ==
    /\ Len(agentCalls) <= 1
    /\ Len(shellCalls) <= 1
    /\ (agentBuilt /\ ~AllArgsEmpty /\ pc \notin {"main", "run_sync"}) =>
          agentCalls = <<ConcatInOrder(argv)>>
    /\ agentCalls # <<>> => ~AllArgsEmpty

SingleRequestWitness ==
    /\ Terminated
    /\ argv = <<"ls", "-a">>
    /\ agentCalls = <<"ls-a">>
    /\ shellCalls = <<Some("ls")>>

(***************************************************************************)
(* C10 -- Malformed success Answer: when run_sync returns success true     *)
(* with cmd null, main() takes the failure branch: it prints the failure   *)
(* field and "Generate failed", shows no execute prompt, reads no input    *)
(* and invokes no shell; the shell is never called with a null command.    *)
(***************************************************************************)
MalformedSuccessGuard ==
    /\ \A i \in 1..Len(shellCalls) : shellCalls[i] # None
    /\ (Returned /\ TheAnswer.success /\ TheAnswer.cmd = None) =>
          /\ pc \in {"branch", "exit"}
          /\ ~PromptShown
          /\ inputReads = 0
          /\ shellCalls = <<>>
          /\ Terminated =>
                /\ stdout = ThinkDisplay \o FailureReport(TheAnswer)
                /\ exit_status = Some(0)

MalformedSuccessGuardWitness ==
    /\ Terminated
    /\ resp_data = Some([success |-> TRUE, cmd |-> None, failure |-> None])
    /\ stdout = <<"(AI Thinking): t1\n", "(AI Answer): None", "Generate failed">>

====
